---- MODULE Spec2Model ----
(***************************************************************************)
(* Model of src/src/collection_impls.rs: the Encodable / Decodable         *)
(* implementations for DList, RingBuf, BTreeMap, BTreeSet, HashMap,        *)
(* HashSet and VecMap.                                                     *)
(*                                                                         *)
(* One run of the model is one caller scenario.  In scenario "roundtrip"   *)
(* the caller populates a container with the container's own insertion     *)
(* operation, encodes it against a backend that records every call, and    *)
(* then decodes against a backend that replays the recording.  In scenario *)
(* "decode" the caller decodes against an arbitrary backend: any reported  *)
(* length, any value or failure for every read.                            *)
(*                                                                         *)
(* Every backend call made by an adapter is one step.  emits and reads are *)
(* the backend's view of the adapter: the calls it received, in order,     *)
(* with the outcome it gave to each.                                       *)
(***************************************************************************)
EXTENDS Integers, Sequences, FiniteSets

\* Bounds of the model.
MaxLen == 3      \* largest container built and largest length a decoder reports
MaxKey == 2      \* elements and keys are 0..MaxKey
MaxVal == 2      \* map values are 1..MaxVal

Keys == 0..MaxKey
Vals == 1..MaxVal
Errors == {"E1", "E2"}       \* the backend's error values (S::Error, D::Error)
UnexpectedEnd == "EOF"       \* a replaying backend asked for more than was recorded

Kinds == {"DList", "RingBuf", "BTreeMap", "BTreeSet", "HashMap", "HashSet", "VecMap"}
SeqKinds == {"DList", "RingBuf"}
SetKinds == {"BTreeSet", "HashSet"}
MapKinds == {"BTreeMap", "HashMap", "VecMap"}
HashKinds == {"HashMap", "HashSet"}

VARIABLES
    kind,      \* the container kind the impl is instantiated for
    mode,      \* "roundtrip" or "decode": the caller scenario
    pc,        \* position of the caller / the running encode or decode
    c,         \* the caller's container (self in encode)
    lastKey,   \* element or key of the latest insertion that built c (<< >>: none)
    iter,      \* encode: what self.iter() has still to yield
    i,         \* the loop index of the running encode or decode
    emits,     \* calls the Encoder received: [op, arg, val, res]
    eres,      \* what encode returned: "none" (not yet), "Ok" or an error
    len,       \* the length the Decoder reported to the body
    key,       \* decode of a map kind: the local `key` (<< >> before it is read)
    reads,     \* calls the Decoder received: [op, arg, val, res]; arg of the
               \* frame call is the length the backend reported
    dest,      \* decode: the local container being filled
    dres       \* what decode returned: [tag, err, val]

vars == <<kind, mode, pc, c, lastKey, iter, i, emits, eres, len, key, reads, dest, dres>>

-----------------------------------------------------------------------------
\* Result<T, E>.  val holds the container of an Ok, and nothing for an Err.
Ok(v) == [tag |-> "Ok", err |-> "none", val |-> <<v>>]
Err(e) == [tag |-> "Err", err |-> e, val |-> << >>]
NoResult == [tag |-> "none", err |-> "none", val |-> << >>]

Call(op, arg, val, res) == [op |-> op, arg |-> arg, val |-> val, res |-> res]

-----------------------------------------------------------------------------
\* The containers.  DList, RingBuf: the sequence of elements, front to back.
\* BTreeSet, BTreeMap: the elements / the [key, val] pairs in iteration order.
\* HashSet, HashMap: the elements / pairs in the order the table yields them.
\* VecMap: the backing vector, slot k + 1 holding << >> (None) or <<v>> (Some(v)).

Range(s) == {s[j] : j \in DOMAIN s}
InsertAt(s, p, x) == SubSeq(s, 1, p - 1) \o <<x>> \o SubSeq(s, p, Len(s))
Pair(k, v) == [key |-> k, val |-> v]
Nones(n) == [j \in 1..n |-> << >>]

\* DList::new(), RingBuf::new(), BTreeMap::new(), BTreeSet::new(), VecMap::new(),
\* HashMap::with_capacity_and_hasher(len, _), HashSet::with_capacity_and_hasher(len, _):
\* the capacity reserves room and stores nothing.
New(k, capacity) == << >>

\* Variant: the element goes to the front (push_front).
push_front(list, x) == <<x>> \o list

push_back(list, x) == Append(list, x)

BTreeSetInsert(set, x) ==
    IF x \in Range(set) THEN set
    ELSE InsertAt(set, Cardinality({j \in DOMAIN set : set[j] < x}) + 1, x)

BTreeMapInsert(map, k, v) ==
    IF \E j \in DOMAIN map : map[j].key = k
    THEN LET j == CHOOSE j \in DOMAIN map : map[j].key = k
         IN [map EXCEPT ![j] = Pair(k, v)]
    ELSE InsertAt(map, Cardinality({j \in DOMAIN map : map[j].key < k}) + 1, Pair(k, v))

\* slot: where the table's layout puts a new entry in its iteration order.
HashSetInsert(set, x, slot) ==
    IF x \in Range(set) THEN set ELSE InsertAt(set, slot, x)

HashMapInsert(map, k, v, slot) ==
    IF \E j \in DOMAIN map : map[j].key = k
    THEN LET j == CHOOSE j \in DOMAIN map : map[j].key = k
         IN [map EXCEPT ![j] = Pair(k, v)]
    ELSE InsertAt(map, slot, Pair(k, v))

VecMapInsert(map, k, v) ==
    LET grown == IF Len(map) <= k THEN map \o Nones(k + 1 - Len(map)) ELSE map
    IN [grown EXCEPT ![k + 1] = <<v>>]

\* The insertion of one decoded item: an element, or the pair (key, val).
Insert(k, cont, item, slot) ==
    CASE k \in SeqKinds -> push_back(cont, item)
      [] k = "BTreeSet" -> BTreeSetInsert(cont, item)
      [] k = "HashSet"  -> HashSetInsert(cont, item, slot)
      [] k = "BTreeMap" -> BTreeMapInsert(cont, item.key, item.val)
      [] k = "HashMap"  -> HashMapInsert(cont, item.key, item.val, slot)
      [] k = "VecMap"   -> VecMapInsert(cont, item.key, item.val)

Slots(k, cont) == IF k \in HashKinds THEN 1..(Len(cont) + 1) ELSE {1}

\* VecMap::iter(): the occupied slots, ascending, as (key, &val).
RECURSIVE VecMapIter(_, _)
VecMapIter(map, from) ==
    IF from > Len(map) THEN << >>
    ELSE IF map[from] = << >> THEN VecMapIter(map, from + 1)
    ELSE <<Pair(from - 1, map[from][1])>> \o VecMapIter(map, from + 1)

\* Variant: the iteration runs back to front (iter().rev()).
IterRev(k, cont) ==
    LET s == IF k = "VecMap" THEN VecMapIter(cont, 1) ELSE cont
    IN [j \in 1..Len(s) |-> s[Len(s) + 1 - j]]

\* self.iter(): the items in the container's native order.
Iter(k, cont) == IF k = "VecMap" THEN VecMapIter(cont, 1) ELSE cont

\* Variant: the length of the backing storage, which for a VecMap counts the
\* empty slots below the largest key too.
ContainerLenCapacity(k, cont) == Len(cont)

\* self.len(); VecMap counts its occupied slots.
ContainerLen(k, cont) == Len(Iter(k, cont))

\* i += 1, and the next index of enumerate() / range(0u, len).
NextIndex(n) == n + 1

\* Variants: range(1u, len), one iteration short, and an inclusive range, one
\* iteration long.
LoopDoneEarly(n, length) == n + 1 >= length
LoopDoneLate(n, length) == n > length

\* range(0u, len) is exhausted.
LoopDone(n, length) == n >= length

Items(k) == IF k \in MapKinds THEN {Pair(x, v) : x \in Keys, v \in Vals} ELSE Keys
ItemKey(k, item) == IF k \in MapKinds THEN item.key ELSE item

OpenOp(k) == IF k \in MapKinds THEN "emit_map" ELSE "emit_seq"
ReadOp(k) == IF k \in MapKinds THEN "read_map" ELSE "read_seq"
EncLoop(k) == IF k \in MapKinds THEN "enc_key" ELSE "enc_elt"
DecLoop(k) == IF k \in MapKinds THEN "dec_key" ELSE "dec_elt"

-----------------------------------------------------------------------------
Init ==
    /\ kind \in Kinds
    /\ mode \in {"roundtrip", "decode"}
    /\ pc = "build"
    /\ c = << >>
    /\ lastKey = << >>
    /\ iter = << >>
    /\ i = 0
    /\ emits = << >>
    /\ eres = "none"
    /\ len = 0
    /\ key = << >>
    /\ reads = << >>
    /\ dest = << >>
    /\ dres = NoResult

\* The caller populates its container.
Build ==
    /\ pc = "build"
    /\ mode = "roundtrip"
    /\ ContainerLen(kind, c) < MaxLen
    /\ \E item \in Items(kind), slot \in Slots(kind, c) :
          /\ c' = Insert(kind, c, item, slot)
          /\ lastKey' = <<ItemKey(kind, item)>>
    /\ UNCHANGED <<kind, mode, pc, iter, i, emits, eres, len, key, reads, dest, dres>>

-----------------------------------------------------------------------------
\* encode

\* s.emit_seq(self.len(), |s| ...) / e.emit_map(self.len(), |e| ...): the backend
\* opens the frame and runs the body, which starts its iteration at index 0.
EncodeOpen ==
    /\ pc = "build"
    /\ mode = "roundtrip"
    /\ emits' = <<Call(OpenOp(kind), ContainerLen(kind, c), << >>, "Ok")>>
    /\ iter' = Iter(kind, c)
    /\ i' = 0
    /\ pc' = EncLoop(kind)
    /\ UNCHANGED <<kind, mode, c, lastKey, eres, len, key, reads, dest, dres>>

\* The backend fails to open the frame: the body is never run and encode returns
\* what emit_seq / emit_map returned.
EncodeOpenFail ==
    /\ pc = "build"
    /\ mode = "roundtrip"
    /\ \E e \in Errors :
          /\ emits' = <<Call(OpenOp(kind), ContainerLen(kind, c), << >>, e)>>
          /\ eres' = e
    /\ pc' = "enc_done"
    /\ UNCHANGED <<kind, mode, c, lastKey, iter, i, len, key, reads, dest, dres>>

\* Variant: the result of emit_seq_elt is dropped instead of tried.
EmitSeqEltIgnoreErr ==
    /\ pc = "enc_elt"
    /\ iter # << >>
    /\ \E r \in {"Ok"} \cup Errors :
          emits' = Append(emits, Call("emit_seq_elt", i, <<Head(iter)>>, r))
    /\ i' = NextIndex(i)
    /\ iter' = Tail(iter)
    /\ UNCHANGED <<kind, mode, pc, c, lastKey, eres, len, key, reads, dest, dres>>

\* try!(s.emit_seq_elt(i, |s| e.encode(s))) for the next element of the iteration.
EmitSeqElt ==
    /\ pc = "enc_elt"
    /\ iter # << >>
    /\ \E r \in {"Ok"} \cup Errors :
          /\ emits' = Append(emits, Call("emit_seq_elt", i, <<Head(iter)>>, r))
          /\ IF r = "Ok"
             THEN /\ i' = NextIndex(i)
                  /\ iter' = Tail(iter)
                  /\ UNCHANGED <<pc, eres>>
             ELSE /\ eres' = r
                  /\ pc' = "enc_done"
                  /\ UNCHANGED <<i, iter>>
    /\ UNCHANGED <<kind, mode, c, lastKey, len, key, reads, dest, dres>>

\* Variant: the value visit is missing from the loop body.
EmitMapEltKeyOnly ==
    /\ pc = "enc_key"
    /\ iter # << >>
    /\ \E r \in {"Ok"} \cup Errors :
          /\ emits' = Append(emits, Call("emit_map_elt_key", i, <<Head(iter).key>>, r))
          /\ IF r = "Ok"
             THEN /\ i' = NextIndex(i)
                  /\ iter' = Tail(iter)
                  /\ UNCHANGED <<pc, eres>>
             ELSE /\ eres' = r
                  /\ pc' = "enc_done"
                  /\ UNCHANGED <<i, iter>>
    /\ UNCHANGED <<kind, mode, c, lastKey, len, key, reads, dest, dres>>

\* try!(e.emit_map_elt_key(i, |e| key.encode(e))) for the next pair of the iteration.
EmitMapEltKey ==
    /\ pc = "enc_key"
    /\ iter # << >>
    /\ \E r \in {"Ok"} \cup Errors :
          /\ emits' = Append(emits, Call("emit_map_elt_key", i, <<Head(iter).key>>, r))
          /\ IF r = "Ok"
             THEN /\ pc' = "enc_val"
                  /\ UNCHANGED eres
             ELSE /\ eres' = r
                  /\ pc' = "enc_done"
    /\ UNCHANGED <<kind, mode, c, lastKey, iter, i, len, key, reads, dest, dres>>

\* Variant: the value visit encodes the key a second time (key.encode(e)).
EmitMapEltValKey ==
    /\ pc = "enc_val"
    /\ \E r \in {"Ok"} \cup Errors :
          /\ emits' = Append(emits, Call("emit_map_elt_val", i, <<Head(iter).key>>, r))
          /\ IF r = "Ok"
             THEN /\ i' = NextIndex(i)
                  /\ iter' = Tail(iter)
                  /\ pc' = "enc_key"
                  /\ UNCHANGED eres
             ELSE /\ eres' = r
                  /\ pc' = "enc_done"
                  /\ UNCHANGED <<i, iter>>
    /\ UNCHANGED <<kind, mode, c, lastKey, len, key, reads, dest, dres>>

\* try!(e.emit_map_elt_val(i, |e| val.encode(e))) for the same pair, then i += 1.
EmitMapEltVal ==
    /\ pc = "enc_val"
    /\ \E r \in {"Ok"} \cup Errors :
          /\ emits' = Append(emits, Call("emit_map_elt_val", i, <<Head(iter).val>>, r))
          /\ IF r = "Ok"
             THEN /\ i' = NextIndex(i)
                  /\ iter' = Tail(iter)
                  /\ pc' = "enc_key"
                  /\ UNCHANGED eres
             ELSE /\ eres' = r
                  /\ pc' = "enc_done"
                  /\ UNCHANGED <<i, iter>>
    /\ UNCHANGED <<kind, mode, c, lastKey, len, key, reads, dest, dres>>

\* The iteration is exhausted: the body returns Ok(()), and so does the frame.
EncodeBodyEnd ==
    /\ pc \in {"enc_elt", "enc_key"}
    /\ iter = << >>
    /\ eres' = "Ok"
    /\ pc' = "enc_done"
    /\ UNCHANGED <<kind, mode, c, lastKey, iter, i, emits, len, key, reads, dest, dres>>

-----------------------------------------------------------------------------
\* The Decoder backends.

\* The faithful backend: it reports the recorded length and answers its n-th call
\* (the frame call is the first) with the value of the n-th recorded call.
ReplayLen == emits[1].arg
ReplayRead(n) ==
    IF n <= Len(emits)
    THEN [res |-> "Ok", val |-> emits[n].val]
    ELSE [res |-> UnexpectedEnd, val |-> << >>]

\* The arbitrary backend: any value of the read's domain, or any failure.
FreeReads(domain) ==
    {[res |-> "Ok", val |-> <<x>>] : x \in domain}
        \cup {[res |-> e, val |-> << >>] : e \in Errors}

\* What the backend may answer to the next read.
ReadOutcomes(domain) ==
    IF mode = "roundtrip" THEN {ReplayRead(Len(reads) + 1)} ELSE FreeReads(domain)

-----------------------------------------------------------------------------
\* decode

\* d.read_seq(|d, len| ...) / d.read_map(|d, len| ...): the backend determines the
\* length and runs the body, which creates the destination and starts at index 0.
DecodeOpen(n) ==
    /\ len' = n
    /\ dest' = New(kind, n)
    /\ i' = 0
    /\ key' = << >>
    /\ reads' = <<Call(ReadOp(kind), n, << >>, "Ok")>>
    /\ pc' = DecLoop(kind)
    /\ UNCHANGED <<kind, mode, c, lastKey, iter, emits, eres, dres>>

DecodeOpenReplay ==
    /\ pc = "enc_done"
    /\ eres = "Ok"
    /\ DecodeOpen(ReplayLen)

DecodeOpenFree ==
    /\ pc = "build"
    /\ mode = "decode"
    /\ \E n \in 0..MaxLen : DecodeOpen(n)

\* The backend fails to open the frame: the body is never run.
DecodeOpenFail ==
    /\ pc = "build"
    /\ mode = "decode"
    /\ \E e \in Errors :
          /\ reads' = <<Call(ReadOp(kind), 0, << >>, e)>>
          /\ dres' = Err(e)
    /\ pc' = "dec_done"
    /\ UNCHANGED <<kind, mode, c, lastKey, iter, i, emits, eres, len, key, dest>>

\* list.push_back(try!(d.read_seq_elt(i, |d| Decodable::decode(d)))), and
\* set.insert(try!(...)) for the set kinds.
ReadSeqElt ==
    /\ pc = "dec_elt"
    /\ ~LoopDone(i, len)
    /\ \E out \in ReadOutcomes(Keys) :
          /\ reads' = Append(reads, Call("read_seq_elt", i, out.val, out.res))
          /\ IF out.res = "Ok"
             THEN /\ \E slot \in Slots(kind, dest) :
                        dest' = Insert(kind, dest, out.val[1], slot)
                  /\ i' = NextIndex(i)
                  /\ UNCHANGED <<pc, dres>>
             ELSE /\ dres' = Err(out.res)
                  /\ pc' = "dec_done"
                  /\ UNCHANGED <<dest, i>>
    /\ UNCHANGED <<kind, mode, c, lastKey, iter, emits, eres, len, key>>

\* Variant: a failed key read breaks out of the loop and the map built so far is
\* returned.
ReadMapEltKeyBreak ==
    /\ pc = "dec_key"
    /\ ~LoopDone(i, len)
    /\ \E out \in ReadOutcomes(Keys) :
          /\ reads' = Append(reads, Call("read_map_elt_key", i, out.val, out.res))
          /\ IF out.res = "Ok"
             THEN /\ key' = out.val
                  /\ pc' = "dec_val"
                  /\ UNCHANGED dres
             ELSE /\ dres' = Ok(dest)
                  /\ pc' = "dec_done"
                  /\ UNCHANGED key
    /\ UNCHANGED <<kind, mode, c, lastKey, iter, i, emits, eres, len, dest>>

\* let key = try!(d.read_map_elt_key(i, |d| Decodable::decode(d)));
ReadMapEltKey ==
    /\ pc = "dec_key"
    /\ ~LoopDone(i, len)
    /\ \E out \in ReadOutcomes(Keys) :
          /\ reads' = Append(reads, Call("read_map_elt_key", i, out.val, out.res))
          /\ IF out.res = "Ok"
             THEN /\ key' = out.val
                  /\ pc' = "dec_val"
                  /\ UNCHANGED dres
             ELSE /\ dres' = Err(out.res)
                  /\ pc' = "dec_done"
                  /\ UNCHANGED key
    /\ UNCHANGED <<kind, mode, c, lastKey, iter, i, emits, eres, len, dest>>

\* Variant: the pair is inserted only if the map does not hold the key yet.
ReadMapEltValKeepFirst ==
    /\ pc = "dec_val"
    /\ \E out \in ReadOutcomes(Vals) :
          /\ reads' = Append(reads, Call("read_map_elt_val", i, out.val, out.res))
          /\ IF out.res = "Ok"
             THEN /\ IF \E item \in Range(Iter(kind, dest)) : item.key = key[1]
                     THEN dest' = dest
                     ELSE \E slot \in Slots(kind, dest) :
                             dest' = Insert(kind, dest, Pair(key[1], out.val[1]), slot)
                  /\ i' = NextIndex(i)
                  /\ key' = << >>
                  /\ pc' = "dec_key"
                  /\ UNCHANGED dres
             ELSE /\ dres' = Err(out.res)
                  /\ pc' = "dec_done"
                  /\ UNCHANGED <<dest, i, key>>
    /\ UNCHANGED <<kind, mode, c, lastKey, iter, emits, eres, len>>

\* let val = try!(d.read_map_elt_val(i, |d| Decodable::decode(d)));
\* map.insert(key, val);
ReadMapEltVal ==
    /\ pc = "dec_val"
    /\ \E out \in ReadOutcomes(Vals) :
          /\ reads' = Append(reads, Call("read_map_elt_val", i, out.val, out.res))
          /\ IF out.res = "Ok"
             THEN /\ \E slot \in Slots(kind, dest) :
                        dest' = Insert(kind, dest, Pair(key[1], out.val[1]), slot)
                  /\ i' = NextIndex(i)
                  /\ key' = << >>
                  /\ pc' = "dec_key"
                  /\ UNCHANGED dres
             ELSE /\ dres' = Err(out.res)
                  /\ pc' = "dec_done"
                  /\ UNCHANGED <<dest, i, key>>
    /\ UNCHANGED <<kind, mode, c, lastKey, iter, emits, eres, len>>

\* The loop is over: the body returns Ok(list) / Ok(deque) / Ok(set) / Ok(map).
DecodeBodyEnd ==
    /\ pc \in {"dec_elt", "dec_key"}
    /\ LoopDone(i, len)
    /\ dres' = Ok(dest)
    /\ pc' = "dec_done"
    /\ UNCHANGED <<kind, mode, c, lastKey, iter, i, emits, eres, len, key, reads, dest>>

Next ==
    \/ Build
    \/ EncodeOpen
    \/ EncodeOpenFail
    \/ EmitSeqElt
    \/ EmitMapEltKey
    \/ EmitMapEltVal
    \/ EncodeBodyEnd
    \/ DecodeOpenReplay
    \/ DecodeOpenFree
    \/ DecodeOpenFail
    \/ ReadSeqElt
    \/ ReadMapEltKey
    \/ ReadMapEltVal
    \/ DecodeBodyEnd

Spec == Init /\ [][Next]_vars
-----------------------------------------------------------------------------
\* Vocabulary of the properties, read off the containers and the two call logs.

\* The element, key and value calls that followed the frame call.
Visits == IF emits = << >> THEN << >> ELSE Tail(emits)
ReadVisits == IF reads = << >> THEN << >> ELSE Tail(reads)

\* What a container holds: its elements, or its (key, val) pairs.
Stored(k, cont) ==
    IF k = "VecMap"
    THEN {Pair(j - 1, cont[j][1]) : j \in {n \in DOMAIN cont : cont[n] # << >>}}
    ELSE Range(cont)
StoredKeys(k, cont) == {ItemKey(k, item) : item \in Stored(k, cont)}

\* How many elements or pairs a traversal of the container meets.
Count(k, cont) ==
    IF k = "VecMap" THEN Cardinality({n \in DOMAIN cont : cont[n] # << >>}) ELSE Len(cont)

\* The value a map holds for a key it stores.
MappedVal(k, cont, x) ==
    IF k = "VecMap" THEN cont[x + 1][1] ELSE (CHOOSE p \in Range(cont) : p.key = x).val

\* Native equality: position by position for the sequence kinds, by membership
\* and mapping for the set and map kinds.
NativeEq(k, a, b) ==
    IF k \in SeqKinds THEN a = b
    ELSE Stored(k, a) = Stored(k, b) /\ Count(k, a) = Count(k, b)

RECURSIVE SortAsc(_)
SortAsc(S) ==
    IF S = {} THEN << >>
    ELSE LET m == CHOOSE x \in S : \A y \in S : x <= y
         IN <<m>> \o SortAsc(S \ {m})

IsKeyCall(e) == e.op \in {"emit_seq_elt", "emit_map_elt_key", "read_seq_elt", "read_map_elt_key"}
IsValCall(e) == e.op \in {"emit_map_elt_val", "read_map_elt_val"}
IsFrameCall(e) == e.op \in {"emit_seq", "emit_map", "read_seq", "read_map"}

\* The calls of a complete pass over n items, by operation and index: one element
\* call per index for the sequence and set kinds, key then value per index for the
\* map kinds, indices 0 .. n - 1 ascending.
FullPass(k, log, n, eltOp, keyOp, valOp) ==
    IF k \in MapKinds
    THEN /\ Len(log) = 2 * n
         /\ \A m \in 0..(n - 1) :
               /\ log[2 * m + 1].op = keyOp /\ log[2 * m + 1].arg = m
               /\ log[2 * m + 2].op = valOp /\ log[2 * m + 2].arg = m
    ELSE /\ Len(log) = n
         /\ \A m \in 0..(n - 1) : log[m + 1].op = eltOp /\ log[m + 1].arg = m

Decoded == dres.val[1]

-----------------------------------------------------------------------------
\* C1 (round trip): for every kind and every container c, decoding against the
\* backend that replays the length and the visits recorded by a successful
\* encode(c) succeeds and returns a container equal to c under the kind's native
\* equality.
C1_RoundTrip ==
    (mode = "roundtrip" /\ pc = "dec_done") =>
        /\ dres.tag = "Ok"
        /\ NativeEq(kind, Decoded, c)

\* A hashed map of two or more pairs came back equal by membership although its
\* table yields the pairs in another order than the original's.
C1_Witness ==
    /\ mode = "roundtrip" /\ pc = "dec_done" /\ kind = "HashMap"
    /\ dres.tag = "Ok"
    /\ Len(c) >= 2
    /\ Decoded # c

\* C2 (encode arity): a successful encode of a container of length N made one
\* frame call, announcing N, and then exactly N element calls, or N key and N
\* value calls, with indices 0, 1, ..., N - 1 ascending without repeat or gap;
\* none for N = 0.  The index is the visit position, not a VecMap's key.
C2_EncodeArity ==
    eres = "Ok" =>
        /\ emits[1].op = OpenOp(kind)
        /\ emits[1].arg = Count(kind, c)
        /\ \A j \in DOMAIN Visits : ~IsFrameCall(Visits[j])
        /\ FullPass(kind, Visits, Count(kind, c),
                    "emit_seq_elt", "emit_map_elt_key", "emit_map_elt_val")

\* A VecMap of two pairs whose smallest key is not 0 was encoded: the first key
\* visit carries index 0 and another key.
C2_Witness ==
    /\ eres = "Ok" /\ kind = "VecMap"
    /\ Count(kind, c) = 2
    /\ Visits[1].arg = 0 /\ Visits[1].val[1] # 0
    /\ Visits[3].arg = 1 /\ Visits[3].val[1] # 1

\* C3 (key before value): in the encode of a map kind the calls alternate key,
\* value; each value call carries the index of the key call just before it and
\* the value the map holds for that key; after a key call that succeeded the
\* adapter is at the value call of the same pair; and a call is followed by
\* another only if it succeeded.
C3_KeyBeforeValue ==
    kind \in MapKinds =>
        /\ \A j \in DOMAIN Visits :
              /\ (j % 2 = 1) => Visits[j].op = "emit_map_elt_key"
              /\ (j % 2 = 0) =>
                    /\ Visits[j].op = "emit_map_elt_val"
                    /\ Visits[j].arg = Visits[j - 1].arg
                    /\ Visits[j].val = <<MappedVal(kind, c, Visits[j - 1].val[1])>>
              /\ (j < Len(Visits)) => Visits[j].res = "Ok"
        /\ (Len(Visits) % 2 = 1 /\ Visits[Len(Visits)].res = "Ok") <=> pc = "enc_val"

\* A map of two or more pairs was encoded to the end.
C3_Witness ==
    /\ kind \in MapKinds /\ eres = "Ok"
    /\ Len(Visits) >= 4
    /\ Visits[2].val # Visits[4].val

\* C4 (decode fail-fast): a read that failed is the last call the decoder
\* received, and decode has returned exactly its failure and no container.
C4_DecodeFailFast ==
    \A j \in DOMAIN reads :
        reads[j].res # "Ok" =>
            /\ j = Len(reads)
            /\ pc = "dec_done"
            /\ dres = Err(reads[j].res)

\* The key read of index 1 failed with length 3 reported and one pair already
\* inserted: no value read followed and the one-pair map was not returned.
C4_Witness ==
    /\ kind \in MapKinds /\ len = 3
    /\ Len(reads) = 4
    /\ reads[4].op = "read_map_elt_key" /\ reads[4].res \in Errors
    /\ Count(kind, dest) = 1
    /\ dres.tag = "Err" /\ dres.val = << >>
\* The elements (sequence and set kinds) or keys (map kinds) read, in read order.
KeyReads == SelectSeq(ReadVisits, IsKeyCall)
KeysRead == {KeyReads[j].val[1] : j \in DOMAIN KeyReads}

\* C5 as stated (decoded size equals reported length): a successful decode returns
\* a container whose element or pair count equals the reported length, whatever
\* the reads yield, equal elements or keys at two indices included.
C5_SizeEqualsLength ==
    dres.tag = "Ok" => Count(kind, Decoded) = len

\* C5 as amended: a successful decode of a DList or RingBuf returns len elements;
\* a successful decode of a set or map kind made len element or key reads and
\* returns as many elements or pairs as there are distinct values among them,
\* which is len exactly when they are pairwise distinct and less otherwise.
C5_SizeIsDistinctReads ==
    dres.tag = "Ok" =>
        /\ Len(KeyReads) = len
        /\ Count(kind, Decoded) =
              IF kind \in SeqKinds THEN len ELSE Cardinality(KeysRead)

\* A set decoded from three reads, two of them equal, holds two elements.
C5_Witness ==
    /\ kind \in SetKinds /\ dres.tag = "Ok"
    /\ len = 3
    /\ KeyReads[1].val = KeyReads[3].val
    /\ KeyReads[1].val # KeyReads[2].val
    /\ Count(kind, Decoded) = 2

\* C6 (order preservation): a successful decode of a DList or RingBuf returns,
\* for the reported length N, the sequence whose element at position i is the
\* value read_seq_elt(i) returned, for every i in 0 .. N - 1; decoding the
\* recording of encode(s) returns s itself, duplicates kept.
C6_OrderPreserved ==
    (kind \in SeqKinds /\ dres.tag = "Ok") =>
        /\ Len(Decoded) = len
        /\ \A n \in 0..(len - 1) :
              /\ ReadVisits[n + 1].op = "read_seq_elt"
              /\ ReadVisits[n + 1].arg = n
              /\ Decoded[n + 1] = ReadVisits[n + 1].val[1]
        /\ mode = "roundtrip" => Decoded = c

\* A deque that is no palindrome and holds an element twice made the round trip.
C6_Witness ==
    /\ kind = "RingBuf" /\ mode = "roundtrip" /\ dres.tag = "Ok"
    /\ Len(c) = 3
    /\ c[1] = c[2] /\ c[2] # c[3]
    /\ Len(Decoded) = 3

\* C7 (decode arity and order): the body starts from an empty destination; a
\* successful decode with reported length N made exactly N element reads, or N
\* key and N value reads, indices 0 .. N - 1 ascending, each key read right before
\* the value read of its index; every read answered with success is followed by
\* success of decode once N items are read; for N = 0 decode makes no read and
\* returns an empty container.
C7_DecodeArity ==
    /\ (pc \in {"dec_elt", "dec_key"} /\ ReadVisits = << >>) => Count(kind, dest) = 0
    /\ dres.tag = "Ok" =>
          /\ reads[1].op = ReadOp(kind) /\ reads[1].arg = len
          /\ \A j \in DOMAIN ReadVisits : ~IsFrameCall(ReadVisits[j])
          /\ FullPass(kind, ReadVisits, len,
                      "read_seq_elt", "read_map_elt_key", "read_map_elt_val")
          /\ len = 0 => Count(kind, Decoded) = 0
    /\ (pc = "dec_done" /\ \A j \in DOMAIN reads : reads[j].res = "Ok") => dres.tag = "Ok"

\* A VecMap was decoded from three pairs whose keys differ from their indices.
C7_Witness ==
    /\ kind = "VecMap" /\ dres.tag = "Ok" /\ mode = "decode"
    /\ len = 3
    /\ Len(ReadVisits) = 6
    /\ \A j \in DOMAIN KeyReads : KeyReads[j].val[1] # KeyReads[j].arg

\* C8 (encode fail-fast): a call of the encoder that failed is the last call it
\* received, and encode has returned exactly its failure, never success.
C8_EncodeFailFast ==
    \A j \in DOMAIN emits :
        emits[j].res # "Ok" =>
            /\ j = Len(emits)
            /\ pc = "enc_done"
            /\ eres = emits[j].res

\* Encoding a three-pair map, the key visit of index 1 failed: its value visit
\* and the third pair were not visited.
C8_Witness ==
    /\ kind = "BTreeMap" /\ Count(kind, c) = 3
    /\ Len(emits) = 4
    /\ emits[4].op = "emit_map_elt_key" /\ emits[4].res \in Errors
    /\ eres = emits[4].res

\* The elements or keys visited by encode, in visit order.
KeyVisits == SelectSeq(Visits, IsKeyCall)
ValVisits == SelectSeq(Visits, IsValCall)

\* C9 (sorted visitation): encode of a BTreeMap, BTreeSet or VecMap visits keys /
\* elements in strictly ascending order: the visit of index i carries the
\* (i + 1)-th smallest one of the container, and a successful encode visited them
\* all, each key with the value the map holds for it.  The visits are thus
\* determined by the content alone, not by the insertions that built it.
C9_SortedVisits ==
    kind \in {"BTreeMap", "BTreeSet", "VecMap"} =>
        LET sorted == SortAsc(StoredKeys(kind, c))
        IN /\ Len(KeyVisits) <= Len(sorted)
           /\ \A j \in DOMAIN KeyVisits :
                 /\ KeyVisits[j].val[1] = sorted[j]
                 /\ KeyVisits[j].arg = j - 1
           /\ eres = "Ok" =>
                 /\ Len(KeyVisits) = Len(sorted)
                 /\ kind \in MapKinds =>
                       \A j \in DOMAIN sorted :
                          ValVisits[j].val[1] = MappedVal(kind, c, sorted[j])

\* A BTreeMap whose smallest key was inserted last was encoded: that key was
\* visited first.
C9_Witness ==
    /\ kind = "BTreeMap" /\ eres = "Ok"
    /\ Count(kind, c) = MaxLen
    /\ lastKey = <<0>>
    /\ KeyVisits[1].val = <<0>>
    /\ KeyVisits[1].val[1] < KeyVisits[2].val[1]

\* The highest index at which key x was read.
LastReadOf(x) ==
    CHOOSE n \in DOMAIN KeyReads :
        /\ KeyReads[n].val[1] = x
        /\ \A m \in DOMAIN KeyReads : KeyReads[m].val[1] = x => m <= n
ValReads == SelectSeq(ReadVisits, IsValCall)

\* C10 (last pair wins): the map returned by a successful decode of a map kind
\* holds exactly the distinct keys read, each once, each mapped to the value read
\* at the highest index at which that key was read.
C10_LastPairWins ==
    (kind \in MapKinds /\ dres.tag = "Ok") =>
        /\ StoredKeys(kind, Decoded) = KeysRead
        /\ Count(kind, Decoded) = Cardinality(KeysRead)
        /\ \A x \in KeysRead :
              MappedVal(kind, Decoded, x) = ValReads[LastReadOf(x)].val[1]

\* A key was read at indices 0 and 2 with two different values, another key in
\* between: the map returned holds the value of index 2.
C10_Witness ==
    /\ kind = "HashMap" /\ dres.tag = "Ok" /\ len = 3
    /\ KeyReads[1].val = KeyReads[3].val
    /\ KeyReads[2].val # KeyReads[1].val
    /\ ValReads[1].val # ValReads[3].val
    /\ MappedVal(kind, Decoded, KeyReads[1].val[1]) = ValReads[3].val[1]
    /\ Len(Decoded) = 2
====
